---- MODULE Spec2Model ----
(***************************************************************************)
(* Model of ffmpeg-pp.py, an NZBGet post-processing script that transcodes *)
(* the video files of a download directory to x265/matroska with ffmpeg,   *)
(* remuxes the result with MKVToolNix, checks its size against the         *)
(* original and swaps it in place of the original.                         *)
(*                                                                         *)
(* The file system is a function from paths to files.  The directory       *)
(* NZBPP_DIRECTORY is an absolute path and holds the files directly, so a  *)
(* path is identified with the file name in it.  A file name is a record   *)
(*   [base, sfx, ext]   standing for   base(s1)(s2)...(sn).ext             *)
(* so that the stem of "x(1).mkv" is base "x" with sfx <<1>>.              *)
(*                                                                         *)
(* A file carries its content and its modified and accessed dates; only    *)
(* the script changes them (reading a file leaves its dates alone).  The   *)
(* content of an original records the size in bytes its video stream has   *)
(* once encoded, which ffmpeg's output for it then has.                    *)
(*                                                                         *)
(* A run ends by one of the script's sys.exit calls or by an exception     *)
(* nothing catches; pc then stays where the run ended.  SpecRerun lets the *)
(* script be started a second time on the directory the first run left.    *)
(***************************************************************************)
EXTENDS Integers, Sequences, FiniteSets, TLC

VARIABLES
    env,          \* the NZBPO_* options the script is started with
    isdir,        \* whether NZBPP_DIRECTORY is a directory
    run,          \* which run of the script over the directory this is
    previous,     \* the jobs of the run before and how they were resolved
    listing,      \* file names in the order os.walk yields them
    fs,           \* the directory: path -> [content, modified, accessed]
    fs0,          \* the directory as it was when the script started
    retryFailure, \* option variables, set at lines 152-166
    convertDTS,
    minPercent,
    maxPercent,
    pc,           \* position of the script; it stays where the script exits
    i,            \* index of the current file in its loop
    attempt,      \* loop variable of the retry loop
    files_to_process, \* the dict, its keys in insertion order
    kwargs,       \* ffmpeg options of the current file
    tmp_mkv,      \* remux temporary of the current file
    exitCode,     \* "none" while running, else the status the process ended with
    warnings,     \* observer: the files the DTS warning was printed for
    ffmpegRuns,   \* observer: path -> the runs of ffmpeg on it, and the successful ones
    outcome       \* observer: path -> how the cleanup loop resolved it

vars == <<env, isdir, run, previous, listing, fs, fs0, retryFailure,
          convertDTS, minPercent, maxPercent, pc, i, attempt,
          files_to_process, kwargs, tmp_mkv, exitCode, warnings, ffmpegRuns,
          outcome>>

---------------------------------------------------------------------------
(* Bounds of the model *)

MaxFiles == 2

MaxRetry == 1

---------------------------------------------------------------------------
(* Program constants *)

sdCRF == 19

hdCRF == 20

fullhdCRF == 21

uhdCRF == 23

\* Timestamp of every file the run creates: later than every original's.
Now == 2 * MaxFiles + 1

\* A stream without the NUMBER_OF_BYTES tag.
NoTag == -1

\* The empty string as a path.
NoPath == [base |-> "", sfx |-> <<>>, ext |-> ""]

---------------------------------------------------------------------------
(* Strings of the convertDTS option, as sequences of characters *)

LowerChar(c) ==
    CASE c = "T" -> "t"
      [] c = "R" -> "r"
      [] c = "U" -> "u"
      [] c = "E" -> "e"
      [] c = "F" -> "f"
      [] c = "A" -> "a"
      [] c = "L" -> "l"
      [] c = "S" -> "s"
      [] OTHER -> c

Lower(s) == [k \in 1..Len(s) |-> LowerChar(s[k])]

RECURSIVE LStrip(_)
LStrip(s) == IF s # <<>> /\ Head(s) = " " THEN LStrip(Tail(s)) ELSE s

RECURSIVE RStrip(_)
RStrip(s) ==
    IF s # <<>> /\ s[Len(s)] = " " THEN RStrip(SubSeq(s, 1, Len(s) - 1)) ELSE s

Strip(s) == RStrip(LStrip(s))

\* convertDTS.strip().lower() != 'true' -> False, else True
ParseConvertDTS(raw) == Lower(Strip(raw)) = <<"t", "r", "u", "e">>

\* Mutant: the option taken as the number of attempts.
ParseRetryFailureAsAttempts(n) == n

\* retryFailure = int(NZBPO_RETRYFAILURE) + 1
ParseRetryFailure(n) == n + 1

\* extensions_to_check entries get a leading period when they have none.
\* An entry is [dot, e]: e is the text after the leading period, if any.
extensionsToProcess(exts) ==
    {[dot |-> TRUE, e |-> exts[k].e] : k \in 1..Len(exts)}

---------------------------------------------------------------------------
(* Paths *)

\* os.path.splitext of the base name: the stem and the extension.
getFilePathinfo(file) ==
    [file_name |-> [base |-> file.base, sfx |-> file.sfx],
     file_extension |-> [dot |-> file.ext # "", e |-> file.ext]]

\* Mutant: the first name is taken without looking whether it exists.
getNewFileNameUnchecked(dir, file, counter) ==
    [base |-> getFilePathinfo(file).file_name.base,
     sfx |-> Append(getFilePathinfo(file).file_name.sfx, counter),
     ext |-> "mkv"]

exists(dir, path) == path \in DOMAIN dir

\* file_name + "(" + str(counter) + ")" + ext, counted up while the path exists.
RECURSIVE getNewFileName(_, _, _)
getNewFileName(dir, file, counter) ==
    LET info == getFilePathinfo(file)
        new_file == [base |-> info.file_name.base,
                     sfx |-> Append(info.file_name.sfx, counter),
                     ext |-> "mkv"]
    IN IF exists(dir, new_file)
       THEN getNewFileName(dir, file, counter + 1)
       ELSE new_file

---------------------------------------------------------------------------
(* Streams *)

Video(codec, w, n) ==
    [codec_type |-> "video", codec_name |-> codec, width |-> w, nbytes |-> n]

Audio(codec) ==
    [codec_type |-> "audio", codec_name |-> codec, width |-> 0, nbytes |-> NoTag]

Subtitle ==
    [codec_type |-> "subtitle", codec_name |-> "subrip", width |-> 0,
     nbytes |-> NoTag]

\* ffmpeg.probe(file)['streams'] split by codec_type.
getStreams(dir, file) ==
    LET probe == dir[file].content.streams IN
    [video_streams |-> SelectSeq(probe, LAMBDA s : s.codec_type = "video"),
     audio_streams |-> SelectSeq(probe, LAMBDA s : s.codec_type = "audio")]

emptyFiletoProcess(file) ==
    [file |-> file,
     converted_file |-> NoPath,
     attempts |-> 0,
     video_streams |-> <<>>,
     audio_streams |-> <<>>,
     failed |-> FALSE]

---------------------------------------------------------------------------
(* Policies *)

\* Mutant: a file without a video stream is not skipped.
ShouldSkipSeveral(video_streams) ==
    IF Len(video_streams) > 1 THEN TRUE
    ELSE Len(video_streams) = 1 /\ video_streams[1].codec_name = "hevc"

\* Mutant: a file already in hevc is not skipped.
ShouldSkipNotOneVideo(video_streams) == Len(video_streams) # 1

\* If there is more then 1 or no video stream, or it's already in hevc,
\* don't process the file.
ShouldSkip(video_streams) ==
    IF Len(video_streams) # 1 THEN TRUE
    ELSE video_streams[1].codec_name = "hevc"

\* Mutant: the buckets end below their bounds.
getCRFBelow(width) ==
    IF width < 640 THEN [ok |-> TRUE, crf |-> sdCRF]
    ELSE IF width < 1280 THEN [ok |-> TRUE, crf |-> hdCRF]
    ELSE IF width < 1920 THEN [ok |-> TRUE, crf |-> fullhdCRF]
    ELSE IF width < 3840 THEN [ok |-> TRUE, crf |-> uhdCRF]
    ELSE [ok |-> FALSE, crf |-> 0]

\* The CRF of a width; ok is FALSE where the script exits with an error.
getCRF(width) ==
    IF width <= 640 THEN [ok |-> TRUE, crf |-> sdCRF]
    ELSE IF width <= 1280 THEN [ok |-> TRUE, crf |-> hdCRF]
    ELSE IF width <= 1920 THEN [ok |-> TRUE, crf |-> fullhdCRF]
    ELSE IF width <= 3840 THEN [ok |-> TRUE, crf |-> uhdCRF]
    ELSE [ok |-> FALSE, crf |-> 0]

\* No option is set before the transcode loop.
nokwargs ==
    [c_a |-> "unset", b_a |-> "unset", crf |-> 0, map |-> "unset",
     c_v |-> "unset", format |-> "unset"]

\* Mutant: the options are set up once and kept from file to file.
initkwargsOnce ==
    IF kwargs.c_a = "unset"
    THEN [c_a |-> "copy", b_a |-> "unset", crf |-> 0, map |-> "unset",
          c_v |-> "unset", format |-> "unset"]
    ELSE kwargs

\* kwargs as initkwargs returns it: the audio tracks are copied by default.
initkwargs ==
    [c_a |-> "copy", b_a |-> "unset", crf |-> 0, map |-> "unset",
     c_v |-> "unset", format |-> "unset"]

\* The DTS check of the transcode loop.
setAudio(kw, dts, audio_streams) ==
    IF dts /\ \E k \in 1..Len(audio_streams) :
                 audio_streams[k].codec_name = "dts"
    THEN [kw EXCEPT !.c_a = "eac3", !.b_a = "640k"]
    ELSE kw

\* len(audio) at line 290: audio is the dict of one stream, so this is the
\* number of its keys.  ffprobe reports more keys than the model keeps.
len(audio) == Cardinality(DOMAIN audio)

\* The number of DTS warnings lines 279-291 print for the audio streams from
\* the k-th on, num_DTS of the streams before it being dts.
RECURSIVE dtsWarnings(_, _, _)
dtsWarnings(audio_streams, k, num_DTS) ==
    IF k > Len(audio_streams) THEN 0
    ELSE IF audio_streams[k].codec_name = "dts"
         THEN (IF len(audio_streams[k]) > num_DTS + 1 /\ num_DTS + 1 # 0
               THEN 1 ELSE 0)
              + dtsWarnings(audio_streams, k + 1, num_DTS + 1)
         ELSE dtsWarnings(audio_streams, k + 1, num_DTS)

\* Whether the DTS warning is printed for a file.
warns(dts, audio_streams) == dts /\ dtsWarnings(audio_streams, 1, 0) > 0

\* kwargs of a file once lines 272-296 have run.
fileKwargs(file_data, dts) ==
    [setAudio([initkwargs EXCEPT
                  !.crf = getCRF(file_data.video_streams[1].width).crf],
              dts, file_data.audio_streams)
     EXCEPT !.map = "0", !.c_v = "libx265", !.format = "matroska"]

\* old_size and new_size are read with int(...['tags']['NUMBER_OF_BYTES']) and
\* divided: a missing tag or an old size of zero raises.
sizesRaise(new_size, old_size) ==
    new_size = NoTag \/ old_size = NoTag \/ old_size = 0

\* Mutant: a size at a bound is rejected as well.
tooLargeOrSmallOrEqual(new_size, old_size, minP, maxP) ==
    \/ new_size * 100 >= maxP * old_size
    \/ new_size * 100 <= minP * old_size

\* (new_size/old_size) > (maxPercent/100) or (new_size/old_size) < (minPercent/100)
\* The quotients are compared exactly: for sizes below 2^40 bytes two
\* different quotients never round to the same double.
tooLargeOrSmall(new_size, old_size, minP, maxP) ==
    \/ new_size * 100 > maxP * old_size
    \/ new_size * 100 < minP * old_size

---------------------------------------------------------------------------
(* External tools *)

\* What ffmpeg writes: the video stream in hevc, its statistics tag copied
\* from the source, the audio streams copied or re-encoded as c:a says.
encodeStream(s, kw) ==
    IF s.codec_type = "video" THEN [s EXCEPT !.codec_name = "hevc"]
    ELSE IF s.codec_type = "audio" /\ kw.c_a # "copy"
         THEN [s EXCEPT !.codec_name = kw.c_a]
         ELSE s

encoded(dir, file, kw, kind) ==
    [content |-> [kind |-> kind,
                  src |-> dir[file].content.src,
                  streams |-> [k \in 1..Len(dir[file].content.streams) |->
                                  encodeStream(dir[file].content.streams[k], kw)],
                  hevcBytes |-> dir[file].content.hevcBytes],
     modified |-> Now,
     accessed |-> Now]

\* What mkvmerge writes: the same streams with fresh statistics tags.
remuxStream(s, bytes) ==
    IF s.codec_type = "video" THEN [s EXCEPT !.nbytes = bytes] ELSE s

remuxed(f) ==
    [content |-> [kind |-> "remuxed",
                  src |-> f.content.src,
                  streams |-> [k \in 1..Len(f.content.streams) |->
                                  remuxStream(f.content.streams[k],
                                              f.content.hevcBytes)],
                  hevcBytes |-> f.content.hevcBytes],
     modified |-> Now,
     accessed |-> Now]

\* The directory operations.
write(dir, path, f) == [p \in DOMAIN dir \cup {path} |-> IF p = path THEN f ELSE dir[p]]

remove(dir, path) == [p \in DOMAIN dir \ {path} |-> dir[p]]

rename(dir, from, to) == remove(write(dir, to, dir[from]), from)

\* Mutant: the output keeps its own dates.
setDatesOfNew(dir, path, old) ==
    [dir EXCEPT ![path].modified = dir[path].modified,
                ![path].accessed = dir[path].accessed]

\* new_file_date.set(created, modified = old modified, accessed = old accessed)
setDates(dir, path, old) ==
    [dir EXCEPT ![path].modified = dir[old].modified,
                ![path].accessed = dir[old].accessed]

---------------------------------------------------------------------------
(* The files and options a run may start with *)

Name(b, s, e) == [base |-> b, sfx |-> s, ext |-> e]

\* A file of the directory: its name, its streams and the size in bytes its
\* video stream has once encoded with libx265.
File(n, streams, bytes) == [name |-> n, streams |-> streams, hevcBytes |-> bytes]

\* Files whose names collide with each other's outputs: the output of x.* is
\* x(1).mkv, the remux temporary of that and the output of x(1).* are
\* x(1)(1).mkv.
Files ==
    { File(Name("x", <<>>, "mkv"),
           <<Video("h264", 1920, 10), Audio("ac3")>>, 10),
      File(Name("x", <<>>, "mp4"),
           <<Video("mpeg4", 640, 10), Audio("dts"), Audio("ac3")>>, 11),
      File(Name("x", <<>>, "avi"),
           <<Video("h264", 1280, NoTag), Audio("mp3")>>, 5),
      File(Name("x", <<1>>, "mkv"),
           <<Video("hevc", 1280, 10), Audio("aac")>>, 10),
      File(Name("x", <<1>>, "mp4"),
           <<Video("h264", 1281, 20), Subtitle, Audio("dts")>>, 2),
      File(Name("x", <<1, 1>>, "mkv"),
           <<Video("hevc", 3840, 10)>>, 10),
      File(Name("y", <<>>, "mkv"),
           <<Video("h264", 3841, 10), Audio("ac3")>>, 5),
      File(Name("y", <<>>, "mp4"),
           <<Audio("dts"), Audio("mp3")>>, 0),
      File(Name("y", <<>>, "avi"),
           <<Video("h264", 1280, 10), Video("mjpeg", 640, 1), Audio("dts")>>, 5),
      File(Name("x", <<>>, "txt"),
           <<Video("h264", 1280, 10), Audio("ac3")>>, 5) }

\* The directory listings: up to MaxFiles files with different names.
Listings(files) ==
    { l \in UNION { [1..n -> files] : n \in 0..MaxFiles } :
        \A a, b \in 1..Len(l) : a # b => l[a].name # l[b].name }

\* Streams and encoded size without a name: the k-th of a listing is named
\* after its place.
Profile(streams, bytes) == [streams |-> streams, hevcBytes |-> bytes]

BaseNames == <<"a", "b", "c", "d", "e", "f">>

Named(profiles) ==
    { [k \in 1..Len(l) |->
          File(Name(BaseNames[k], <<>>, "mkv"), l[k].streams, l[k].hevcBytes)] :
        l \in UNION { [1..n -> profiles] : n \in 0..MaxFiles } }

\* The listings in which one file at most is not among `rest`.
NamedOne(profiles, rest) ==
    { l \in Named(profiles \cup rest) :
        \A a, b \in 1..Len(l) :
            a # b => Profile(l[a].streams, l[a].hevcBytes) \in rest
                     \/ Profile(l[b].streams, l[b].hevcBytes) \in rest }

\* A file that is rejected and one whose size tag is missing.
CoreProfiles ==
    { Profile(<<Video("h264", 1920, 10), Audio("ac3")>>, 11),
      Profile(<<Video("h264", 1920, NoTag), Audio("ac3")>>, 5) }

Widths == {1, 640, 641, 1280, 1281, 1920, 1921, 3840, 3841, 7680}

WidthProfiles ==
    { Profile(<<Video("h264", w, 10), Audio("ac3")>>, 5) : w \in Widths }

OldSizes == {8, 20}

NewSizes == {1, 2, 3, 4, 8, 9, 10, 11, 20, 21, 25, 26}

\* A file that is rejected, one that is too wide and one of size zero.
SizeCore ==
    { Profile(<<Video("h264", 1920, 10), Audio("ac3")>>, 11),
      Profile(<<Video("h264", 3841, 10)>>, 5),
      Profile(<<Video("h264", 640, 0)>>, 5) }

SizeProfiles ==
    { Profile(<<Video("h264", 1280, old), Audio("ac3")>>, new) :
        old \in OldSizes, new \in NewSizes }

AudioStreams ==
    { <<>>, <<Audio("dts")>>, <<Audio("ac3")>>, <<Audio("dts"), Audio("ac3")>>,
      <<Audio("aac"), Subtitle, Audio("dts")>>, <<Audio("aac"), Audio("ac3")>> }

AudioCore ==
    { Profile(<<Video("h264", 1920, NoTag), Audio("ac3")>>, 5),
      Profile(<<Video("h264", 3841, 10), Audio("dts")>>, 5),
      Profile(<<Video("h264", 640, 10), Audio("dts")>>, 11) }

AudioProfiles ==
    { Profile(<<Video("h264", 1280, 10)>> \o a, 5) : a \in AudioStreams }

Extensions == << [dot |-> FALSE, e |-> "mkv"], [dot |-> TRUE, e |-> "mp4"],
                 [dot |-> FALSE, e |-> "avi"] >>

True == <<"T", "r", "u", "e">>

False == <<"F", "a", "l", "s", "e">>

DTSValues ==
    { True, False, <<" ", "T", "R", "U", "E", " ">>, <<"t", "r", "u", "e", "s">>,
      <<"y", "e", "s">>, <<" ">> }

OptionsWith(retries, dts, percents) ==
    { [ NZBPO_RETRYFAILURE |-> r,
        NZBPO_CONVERTDTS |-> d,
        NZBPO_MINPERCENT |-> p[1],
        NZBPO_MAXPERCENT |-> p[2],
        NZBPO_EXTENSIONS_TO_CHECK |-> Extensions ] :
        r \in retries, d \in dts, p \in percents }

\* The directory of a listing; the k-th file was modified at k and read at
\* Len(l) + k.
Directory(l) ==
    [ p \in { l[k].name : k \in 1..Len(l) } |->
        LET k == CHOOSE k \in 1..Len(l) : l[k].name = p IN
        [content |-> [kind |-> "original", src |-> p,
                      streams |-> l[k].streams, hevcBytes |-> l[k].hevcBytes],
         modified |-> k,
         accessed |-> Len(l) + k] ]

\* A run starts on a directory, or on a path that is no directory and holds
\* no file.
InitWith(listings, options) ==
    \E l \in listings, o \in options, d \in BOOLEAN :
        /\ d \/ l = <<>>
        /\ isdir = d
        /\ run = 1
        /\ previous = <<>>
        /\ warnings = {}
        /\ env = o
        /\ listing = [k \in 1..Len(l) |-> l[k].name]
        /\ fs = Directory(l)
        /\ fs0 = Directory(l)
        /\ retryFailure = ParseRetryFailure(o.NZBPO_RETRYFAILURE)
        /\ convertDTS = ParseConvertDTS(o.NZBPO_CONVERTDTS)
        /\ minPercent = o.NZBPO_MINPERCENT
        /\ maxPercent = o.NZBPO_MAXPERCENT
        /\ pc = "start"
        /\ i = 1
        /\ attempt = 0
        /\ files_to_process = <<>>
        /\ kwargs = nokwargs
        /\ tmp_mkv = NoPath
        /\ exitCode = "none"
        /\ ffmpegRuns = [p \in DOMAIN Directory(l) |-> [runs |-> 0, ok |-> 0]]
        /\ outcome = [p \in DOMAIN Directory(l) |-> "none"]

\* Runs over files whose names collide, under every number of retries.
Init ==
    InitWith(Listings(Files), OptionsWith(0..MaxRetry, {True}, {<<10, 100>>}))

\* Runs over files of every width.
InitWidths ==
    InitWith(NamedOne(WidthProfiles, CoreProfiles),
             OptionsWith({MaxRetry}, {True}, {<<10, 100>>}))

\* Runs over files of many sizes, under several pairs of percentages.
InitSizes ==
    InitWith(NamedOne(SizeProfiles, SizeCore),
             OptionsWith({MaxRetry}, {True}, {<<10, 100>>, <<50, 125>>, <<100, 100>>}))

\* Runs over files of many audio streams, under every value of convertDTS.
InitAudio ==
    InitWith(NamedOne(AudioProfiles, AudioCore),
             OptionsWith({MaxRetry}, DTSValues, {<<10, 100>>}))

\* A file that is replaced.
RerunCore ==
    { Profile(<<Video("h264", 1920, 10), Audio("dts"), Audio("ac3")>>, 10) }

\* A file that is rejected, one that is skipped and two the run ends at.
RerunProfiles ==
    { Profile(<<Video("mpeg4", 640, 10), Audio("ac3")>>, 11),
      Profile(<<Video("hevc", 1280, 10), Audio("aac")>>, 10),
      Profile(<<Video("h264", 3841, 10)>>, 5),
      Profile(<<Video("h264", 640, NoTag)>>, 5) }

\* Runs that are followed by a second run over the same directory.
InitRerun ==
    InitWith(NamedOne(RerunProfiles, RerunCore),
             OptionsWith({0}, {True}, {<<10, 100>>}))

---------------------------------------------------------------------------
(* The scan loop, lines 243-265 *)

\* The process has not exited.
running == exitCode = "none"

\* What a run does not change once it has started.
config ==
    <<env, isdir, run, previous, listing, fs0, retryFailure, convertDTS,
      minPercent, maxPercent>>

\* One file of the walk: an allow-listed file is added with its streams and
\* popped again when it is to be skipped.
scanned(jobs, dir, file, exts) ==
    IF getFilePathinfo(file).file_extension \in extensionsToProcess(exts)
    THEN LET streams == getStreams(dir, file)
             job == [emptyFiletoProcess(file) EXCEPT
                        !.video_streams = streams.video_streams,
                        !.audio_streams = streams.audio_streams]
         IN IF ShouldSkip(job.video_streams) THEN jobs ELSE Append(jobs, job)
    ELSE jobs

\* Lines 148-150: the destination directory does not exist.
DirectoryMissing ==
    /\ running
    /\ pc = "start"
    /\ ~isdir
    /\ exitCode' = "POSTPROCESS_ERROR"
    /\ UNCHANGED <<config, warnings, fs, pc, i, attempt, files_to_process,
                   kwargs, tmp_mkv, ffmpegRuns, outcome>>

\* Lines 151-174 and 241: the directory exists and the walk begins.
Start ==
    /\ running
    /\ pc = "start"
    /\ isdir
    /\ pc' = "scan"
    /\ UNCHANGED <<config, warnings, fs, i, attempt, files_to_process,
                   kwargs, tmp_mkv, exitCode, ffmpegRuns, outcome>>

ScanFile ==
    /\ running
    /\ pc = "scan"
    /\ i <= Len(listing)
    /\ files_to_process' =
           scanned(files_to_process, fs, listing[i], env.NZBPO_EXTENSIONS_TO_CHECK)
    /\ i' = i + 1
    /\ UNCHANGED <<config, warnings, fs, pc, attempt, kwargs, tmp_mkv,
                   exitCode, ffmpegRuns, outcome>>

ScanEnd ==
    /\ running
    /\ pc = "scan"
    /\ i > Len(listing)
    /\ pc' = "transcode"
    /\ i' = 1
    /\ UNCHANGED <<config, warnings, fs, attempt, files_to_process, kwargs,
                   tmp_mkv, exitCode, ffmpegRuns, outcome>>

---------------------------------------------------------------------------
(* The transcode loop, lines 270-319 *)

file_data == files_to_process[i]

\* getCRF finds no bucket for the width: sys.exit(POSTPROCESS_ERROR).
GetCRFExit ==
    /\ running
    /\ pc = "transcode"
    /\ i <= Len(files_to_process)
    /\ ~getCRF(file_data.video_streams[1].width).ok
    /\ kwargs' = initkwargs
    /\ exitCode' = "POSTPROCESS_ERROR"
    /\ UNCHANGED <<config, warnings, fs, pc, i, attempt, files_to_process,
                   tmp_mkv, ffmpegRuns, outcome>>

\* Lines 272-298: the options of the file and the name of its output.
Prepare ==
    /\ running
    /\ pc = "transcode"
    /\ i <= Len(files_to_process)
    /\ getCRF(file_data.video_streams[1].width).ok
    /\ kwargs' = fileKwargs(file_data, convertDTS)
    /\ files_to_process' =
           [files_to_process EXCEPT
               ![i].converted_file = getNewFileName(fs, file_data.file, 1)]
    /\ warnings' = IF warns(convertDTS, file_data.audio_streams)
                   THEN warnings \cup {file_data.file}
                   ELSE warnings
    /\ attempt' = 0
    /\ pc' = "ffmpeg"
    /\ UNCHANGED <<config, fs, i, tmp_mkv, exitCode, ffmpegRuns, outcome>>

\* Mutant: one attempt more than the range holds.
inRangeInclusive(n, stop) == n <= stop

\* for attempt in range(retryFailure)
inRange(n, stop) == n < stop

\* One more run of ffmpeg on file; ok tells whether it succeeded.
ran(runs, file, ok) ==
    [runs EXCEPT ![file] = [runs |-> @.runs + 1,
                            ok |-> @.ok + (IF ok THEN 1 ELSE 0)]]

\* Mutant: a file is validated as soon as it is encoded.
FfmpegRunThenCleanup ==
    /\ running
    /\ pc = "ffmpeg"
    /\ inRange(attempt, retryFailure)
    /\ fs' = write(fs, file_data.converted_file,
                   encoded(fs, file_data.file, kwargs, "encoded"))
    /\ ffmpegRuns' = ran(ffmpegRuns, file_data.file, TRUE)
    /\ pc' = "cleanup"
    /\ UNCHANGED <<config, warnings, i, attempt, files_to_process, kwargs,
                   tmp_mkv, exitCode, outcome>>

\* An attempt that succeeds: the output is written over whatever is at its
\* path, and the loop is left.
FfmpegRun ==
    /\ running
    /\ pc = "ffmpeg"
    /\ inRange(attempt, retryFailure)
    /\ fs' = write(fs, file_data.converted_file,
                   encoded(fs, file_data.file, kwargs, "encoded"))
    /\ ffmpegRuns' = ran(ffmpegRuns, file_data.file, TRUE)
    /\ pc' = "transcode"
    /\ i' = i + 1
    /\ UNCHANGED <<config, warnings, attempt, files_to_process, kwargs,
                   tmp_mkv, exitCode, outcome>>

\* An attempt that raises ffmpeg.Error, having written part of the output or
\* nothing at all.
FfmpegError ==
    /\ running
    /\ pc = "ffmpeg"
    /\ inRange(attempt, retryFailure)
    /\ \E partial \in BOOLEAN :
         /\ fs' = IF partial
                  THEN write(fs, file_data.converted_file,
                             encoded(fs, file_data.file, kwargs, "partial"))
                  ELSE fs
         /\ ffmpegRuns' = ran(ffmpegRuns, file_data.file, FALSE)
    /\ attempt' = attempt + 1
    /\ UNCHANGED <<config, warnings, pc, i, files_to_process, kwargs,
                   tmp_mkv, exitCode, outcome>>

\* The else of the for loop: no attempt is left.
RetriesExhausted ==
    /\ running
    /\ pc = "ffmpeg"
    /\ ~inRange(attempt, retryFailure)
    /\ files_to_process' = [files_to_process EXCEPT ![i].failed = TRUE]
    /\ pc' = "transcode"
    /\ i' = i + 1
    /\ UNCHANGED <<config, warnings, fs, attempt, kwargs, tmp_mkv, exitCode,
                   ffmpegRuns, outcome>>

TranscodeEnd ==
    /\ running
    /\ pc = "transcode"
    /\ i > Len(files_to_process)
    /\ pc' = "cleanup"
    /\ i' = 1
    /\ UNCHANGED <<config, warnings, fs, attempt, files_to_process, kwargs,
                   tmp_mkv, exitCode, ffmpegRuns, outcome>>

---------------------------------------------------------------------------
(* The cleanup loop, lines 322-365 *)

failedWithArtifact(job, dir) ==
    job.failed /\ job.converted_file # NoPath /\ exists(dir, job.converted_file)

resolved(o, file, how) == [o EXCEPT ![file] = how]

\* Lines 325-327, or neither branch of the if: the artifact of a failed file
\* is removed and its name cleared.
RemoveFailed ==
    /\ running
    /\ pc = "cleanup"
    /\ i <= Len(files_to_process)
    /\ failedWithArtifact(file_data, fs) \/ file_data.converted_file = NoPath
    /\ IF failedWithArtifact(file_data, fs)
       THEN /\ fs' = remove(fs, file_data.converted_file)
            /\ files_to_process' =
                   [files_to_process EXCEPT ![i].converted_file = NoPath]
            /\ outcome' = resolved(outcome, file_data.file, "failed")
       ELSE UNCHANGED <<fs, files_to_process, outcome>>
    /\ i' = i + 1
    /\ UNCHANGED <<config, warnings, pc, attempt, kwargs, tmp_mkv, exitCode,
                   ffmpegRuns>>

\* Lines 334-338 with no file at converted_file: MKVFile raises and the
\* script ends with the traceback.
RemuxRaises ==
    /\ running
    /\ pc = "cleanup"
    /\ i <= Len(files_to_process)
    /\ ~failedWithArtifact(file_data, fs)
    /\ file_data.converted_file # NoPath
    /\ ~exists(fs, file_data.converted_file)
    /\ tmp_mkv' = getNewFileName(fs, file_data.converted_file, 1)
    /\ exitCode' = "exception"
    /\ UNCHANGED <<config, warnings, fs, pc, i, attempt, files_to_process,
                   kwargs, ffmpegRuns, outcome>>

\* Lines 334-338: mux to the temporary, remove the output, rename the
\* temporary to the output's name.
Remux ==
    /\ running
    /\ pc = "cleanup"
    /\ i <= Len(files_to_process)
    /\ ~failedWithArtifact(file_data, fs)
    /\ file_data.converted_file # NoPath
    /\ exists(fs, file_data.converted_file)
    /\ LET tmp == getNewFileName(fs, file_data.converted_file, 1)
           muxed == write(fs, tmp, remuxed(fs[file_data.converted_file]))
       IN /\ tmp_mkv' = tmp
          /\ fs' = rename(remove(muxed, file_data.converted_file),
                          tmp, file_data.converted_file)
    /\ pc' = "validate"
    /\ UNCHANGED <<config, warnings, i, attempt, files_to_process, kwargs,
                   exitCode, ffmpegRuns, outcome>>

old_size == file_data.video_streams[1].nbytes

new_size == getStreams(fs, file_data.converted_file).video_streams[1].nbytes

\* Lines 342-346 raise KeyError or ZeroDivisionError.
SizeRaises ==
    /\ running
    /\ pc = "validate"
    /\ sizesRaise(new_size, old_size)
    /\ exitCode' = "exception"
    /\ UNCHANGED <<config, warnings, fs, pc, i, attempt, files_to_process,
                   kwargs, tmp_mkv, ffmpegRuns, outcome>>

\* Mutant: the rejected output is left where it is.
RejectKeepsOutput ==
    /\ running
    /\ pc = "validate"
    /\ ~sizesRaise(new_size, old_size)
    /\ tooLargeOrSmall(new_size, old_size, minPercent, maxPercent)
    /\ outcome' = resolved(outcome, file_data.file, "rejected")
    /\ pc' = "cleanup"
    /\ i' = i + 1
    /\ UNCHANGED <<config, warnings, fs, attempt, files_to_process, kwargs,
                   tmp_mkv, exitCode, ffmpegRuns>>

\* Lines 346-349: the output is too large or too small and is removed.
Reject ==
    /\ running
    /\ pc = "validate"
    /\ ~sizesRaise(new_size, old_size)
    /\ tooLargeOrSmall(new_size, old_size, minPercent, maxPercent)
    /\ fs' = remove(fs, file_data.converted_file)
    /\ outcome' = resolved(outcome, file_data.file, "rejected")
    /\ pc' = "cleanup"
    /\ i' = i + 1
    /\ UNCHANGED <<config, warnings, attempt, files_to_process, kwargs,
                   tmp_mkv, exitCode, ffmpegRuns>>

\* Lines 351-360: the output takes the dates of the original.
SetDates ==
    /\ running
    /\ pc = "validate"
    /\ ~sizesRaise(new_size, old_size)
    /\ ~tooLargeOrSmall(new_size, old_size, minPercent, maxPercent)
    /\ fs' = setDates(fs, file_data.converted_file, file_data.file)
    /\ pc' = "remove"
    /\ UNCHANGED <<config, warnings, i, attempt, files_to_process, kwargs,
                   tmp_mkv, exitCode, ffmpegRuns, outcome>>

\* Line 363: os.remove(file)
RemoveOriginal ==
    /\ running
    /\ pc = "remove"
    /\ fs' = remove(fs, file_data.file)
    /\ pc' = "rename"
    /\ UNCHANGED <<config, warnings, i, attempt, files_to_process, kwargs,
                   tmp_mkv, exitCode, ffmpegRuns, outcome>>

\* Line 365: os.rename(converted_file, file)
MoveInPlace ==
    /\ running
    /\ pc = "rename"
    /\ fs' = rename(fs, file_data.converted_file, file_data.file)
    /\ outcome' = resolved(outcome, file_data.file, "replaced")
    /\ pc' = "cleanup"
    /\ i' = i + 1
    /\ UNCHANGED <<config, warnings, attempt, files_to_process, kwargs,
                   tmp_mkv, exitCode, ffmpegRuns>>

\* os.remove at line 363 or os.rename at line 365 raises OSError: the script
\* ends with the traceback.
CommitRaises ==
    /\ running
    /\ pc \in {"remove", "rename"}
    /\ exitCode' = "exception"
    /\ UNCHANGED <<config, warnings, fs, pc, i, attempt, files_to_process,
                   kwargs, tmp_mkv, ffmpegRuns, outcome>>

\* Line 368: sys.exit(POSTPROCESS_SUCCESS)
Exit ==
    /\ running
    /\ pc = "cleanup"
    /\ i > Len(files_to_process)
    /\ exitCode' = "POSTPROCESS_SUCCESS"
    /\ UNCHANGED <<config, warnings, fs, pc, i, attempt, files_to_process,
                   kwargs, tmp_mkv, ffmpegRuns, outcome>>

---------------------------------------------------------------------------
(* The script is run again over the directory the run before has left *)

\* The sequences that hold every path of a set once.
RECURSIVE Orders(_)
Orders(paths) ==
    IF paths = {} THEN {<<>>}
    ELSE UNION { { <<p>> \o l : l \in Orders(paths \ {p}) } : p \in paths }

\* The orders in which os.walk yields the files of a directory that was
\* walked before: the files of the walk before in any order, then the files
\* that have come since in any order.
walks(dir, before) ==
    LET old == { p \in DOMAIN dir : \E k \in 1..Len(before) : before[k] = p }
    IN { a \o b : a \in Orders(old), b \in Orders(DOMAIN dir \ old) }

\* The jobs of a run and how each was resolved.
jobsDone(jobs, o) ==
    [j \in 1..Len(jobs) |-> [file |-> jobs[j].file, outcome |-> o[jobs[j].file]]]

\* The script is started a second time, once the first run has ended.
Rerun ==
    /\ ~running
    /\ run = 1
    /\ run' = run + 1
    /\ previous' = jobsDone(files_to_process, outcome)
    /\ listing' \in walks(fs, listing)
    /\ fs0' = fs
    /\ pc' = "start"
    /\ i' = 1
    /\ attempt' = 0
    /\ files_to_process' = <<>>
    /\ kwargs' = nokwargs
    /\ tmp_mkv' = NoPath
    /\ exitCode' = "none"
    /\ warnings' = {}
    /\ ffmpegRuns' = [p \in DOMAIN fs |-> [runs |-> 0, ok |-> 0]]
    /\ outcome' = [p \in DOMAIN fs |-> "none"]
    /\ UNCHANGED <<env, isdir, fs, retryFailure, convertDTS, minPercent,
                   maxPercent>>

---------------------------------------------------------------------------

Next ==
    \/ DirectoryMissing
    \/ Start
    \/ ScanFile
    \/ ScanEnd
    \/ GetCRFExit
    \/ Prepare
    \/ FfmpegRun
    \/ FfmpegError
    \/ RetriesExhausted
    \/ TranscodeEnd
    \/ RemoveFailed
    \/ RemuxRaises
    \/ Remux
    \/ SizeRaises
    \/ Reject
    \/ SetDates
    \/ RemoveOriginal
    \/ MoveInPlace
    \/ CommitRaises
    \/ Exit

Spec == Init /\ [][Next]_vars

SpecWidths == InitWidths /\ [][Next]_vars

SpecSizes == InitSizes /\ [][Next]_vars

SpecAudio == InitAudio /\ [][Next]_vars

\* A run and a second one after it.
NextRerun == Next \/ Rerun

SpecRerun == InitRerun /\ [][NextRerun]_vars

---------------------------------------------------------------------------
(* Vocabulary of the properties *)

Jobs == 1..Len(files_to_process)

inCleanup == pc \in {"cleanup", "validate", "remove", "rename"}

\* The transcode loop has finished with job j.
transcoded(j) == (pc = "transcode" /\ i > j) \/ inCleanup

\* The cleanup loop has finished with job j.
cleaned(j) == inCleanup /\ i > j

\* The paths holding something made from file f, f itself apart.
artifactsOf(f) == { p \in DOMAIN fs : p # f /\ fs[p].content.src = f }

---------------------------------------------------------------------------
(* C1: once the commit of an accepted job has completed, the original's path
   holds the transcoded and remuxed content, its modified and accessed
   timestamps are those the original had, and neither the converted file
   nor the remux temporary is left in the directory. *)
C1_CommitReplacesOriginal ==
    \A j \in Jobs :
        LET job == files_to_process[j] IN
        outcome[job.file] = "replaced" =>
            /\ job.file \in DOMAIN fs
            /\ fs[job.file].content.kind = "remuxed"
            /\ fs[job.file].content.src = job.file
            /\ fs[job.file].modified = fs0[job.file].modified
            /\ fs[job.file].accessed = fs0[job.file].accessed
            /\ job.converted_file \notin DOMAIN fs
            /\ (i = j + 1 => tmp_mkv \notin DOMAIN fs)
            /\ artifactsOf(job.file) = {}

C1_Witness ==
    \E j \in Jobs :
        /\ outcome[files_to_process[j].file] = "replaced"
        /\ i = j + 1
        /\ Len(files_to_process) > 1

(* C2: when the validator rejects a transcoded file, the artifact is deleted,
   the original is as it was (content, path, timestamps), the job is not
   marked failed and the cleanup loop has gone on to the next file. *)
C2_RejectKeepsOriginal ==
    \A j \in Jobs :
        LET job == files_to_process[j] IN
        outcome[job.file] = "rejected" =>
            /\ job.file \in DOMAIN fs
            /\ fs[job.file] = fs0[job.file]
            /\ job.converted_file \notin DOMAIN fs
            /\ artifactsOf(job.file) = {}
            /\ ~job.failed
            /\ cleaned(j)

C2_Witness ==
    \E j \in Jobs :
        /\ outcome[files_to_process[j].file] = "rejected"
        /\ j < Len(files_to_process)
        /\ pc = "validate"

(* C3: when the encode of a file exhausts the retry budget, the job is marked
   failed, no artifact is left at its converted path once the cleanup loop
   has dealt with it, its original is untouched, and the run does not end at
   this file: it goes on to the remaining files, whether the failed encoder
   left a partial artifact or none. *)
C3_FailedFileIsCleanedUp ==
    \A j \in Jobs :
        LET job == files_to_process[j] IN
        (transcoded(j) /\ ffmpegRuns[job.file].ok = 0) =>
            /\ job.failed
            /\ fs[job.file] = fs0[job.file]
            /\ cleaned(j) => artifactsOf(job.file) = {}
            /\ ~(pc = "cleanup" /\ i = j /\ exitCode = "exception")

C4_Counts ==
    \A j \in Jobs :
        LET job == files_to_process[j]
            r == ffmpegRuns[job.file]
        IN transcoded(j) =>
               IF r.ok = 0
               THEN r.runs = retryFailure /\ job.failed
               ELSE r.ok = 1 /\ r.runs <= retryFailure /\ ~job.failed

C4_Step ==
    \A p \in DOMAIN ffmpegRuns :
        ffmpegRuns'[p].runs > ffmpegRuns[p].runs =>
            ffmpegRuns[p].ok = 0 /\ ffmpegRuns[p].runs < retryFailure

(* C4: a file whose every run of ffmpeg fails is run exactly retryFailure
   times (the value of the option variable the retry loop ranges over) and is
   then marked failed; a file whose run first succeeds at attempt k is run
   exactly k times, k <= retryFailure, and is not marked failed: ffmpeg never
   runs on a file again after a success. *)
C4_RetryBudget == [](C4_Counts) /\ [][C4_Step]_vars

C4_Witness ==
    \E j, k \in Jobs :
        /\ transcoded(j) /\ transcoded(k)
        /\ files_to_process[j].failed
        /\ ffmpegRuns[files_to_process[j].file].runs = retryFailure
        /\ ~files_to_process[k].failed
        /\ ffmpegRuns[files_to_process[k].file].runs = 2

(* C5: with the option retryFailure set to R, an encode that fails every time
   is run exactly R + 1 times; with R = 0 it is run once and never retried. *)
C5_OptionCountsRetries ==
    \A j \in Jobs :
        LET job == files_to_process[j] IN
        (transcoded(j) /\ ffmpegRuns[job.file].ok = 0) =>
            ffmpegRuns[job.file].runs = env.NZBPO_RETRYFAILURE + 1

C5_Witness ==
    \E j \in Jobs :
        /\ transcoded(j)
        /\ env.NZBPO_RETRYFAILURE = 0
        /\ files_to_process[j].failed
        /\ ffmpegRuns[files_to_process[j].file] = [runs |-> 1, ok |-> 0]

videoOf(f) ==
    LET streams == fs0[f].content.streams
        k == CHOOSE k \in 1..Len(streams) : streams[k].codec_type = "video"
    IN streams[k]

withinPercent(new, old) ==
    minPercent * old <= 100 * new /\ 100 * new <= maxPercent * old

accepted(j) ==
    \/ outcome[files_to_process[j].file] = "replaced"
    \/ pc \in {"remove", "rename"} /\ i = j

(* C6: for positive sizes and percentages the validator accepts a transcoded
   file iff minPercent/100 <= new/old <= maxPercent/100, the sizes being the
   byte size of the original's video stream and that of the encoded one: a
   validated file is accepted when the quotient is within the bounds, either
   bound included, and rejected when it is strictly outside. *)
C6_AcceptsIffWithinPercent ==
    \A j \in Jobs :
        LET f == files_to_process[j].file
            old == videoOf(f).nbytes
            new == fs0[f].content.hevcBytes
        IN (old > 0 /\ new > 0) =>
              /\ accepted(j) => withinPercent(new, old)
              /\ outcome[f] = "rejected" => ~withinPercent(new, old)
              /\ (cleaned(j) /\ ~files_to_process[j].failed) =>
                     outcome[f] \in {"replaced", "rejected"}

C6_Witness ==
    \E j, k \in Jobs :
        LET f == files_to_process[j].file
            g == files_to_process[k].file
        IN /\ outcome[f] = "replaced"
           /\ 100 * fs0[f].content.hevcBytes = maxPercent * videoOf(f).nbytes
           /\ outcome[g] = "rejected"
           /\ 100 * fs0[g].content.hevcBytes > maxPercent * videoOf(g).nbytes

videoStreams(f) ==
    { k \in 1..Len(fs0[f].content.streams) :
        fs0[f].content.streams[k].codec_type = "video" }

allowListed(f) ==
    \E k \in 1..Len(env.NZBPO_EXTENSIONS_TO_CHECK) :
        env.NZBPO_EXTENSIONS_TO_CHECK[k].e = f.ext

candidate(f) == \E j \in Jobs : files_to_process[j].file = f

(* C7: once the scan has passed a file with an allow-listed extension, the
   file is a candidate iff it has exactly one video stream and that stream is
   not hevc, whatever its audio streams; a file that is no candidate has no
   job, so it is never marked failed, and ffmpeg never runs on it. *)
C7_CandidatesHaveOneVideoNotHevc ==
    \A k \in 1..Len(listing) :
        LET f == listing[k] IN
        (pc # "start" /\ (pc = "scan" => k < i)) =>
            /\ allowListed(f) =>
                  (candidate(f) <=>
                      /\ Cardinality(videoStreams(f)) = 1
                      /\ videoOf(f).codec_name # "hevc")
            /\ ~candidate(f) =>
                  /\ ffmpegRuns[f].runs = 0
                  /\ f \in DOMAIN fs /\ fs[f] = fs0[f]

C7_Witness ==
    /\ pc = "cleanup"
    /\ Len(listing) = 2
    /\ Len(files_to_process) = 1
    /\ allowListed(listing[1])
    /\ Cardinality(videoStreams(listing[1])) = 0
    /\ Len(fs0[listing[1]].content.streams) = 2
    /\ ffmpegRuns[listing[2]].ok = 1

widthOf(j) == files_to_process[j].video_streams[1].width

crfOfWidth(w) ==
    CASE w <= 640 -> sdCRF
      [] 640 < w /\ w <= 1280 -> hdCRF
      [] 1280 < w /\ w <= 1920 -> fullhdCRF
      [] 1920 < w /\ w <= 3840 -> uhdCRF

(* C8: the CRF handed to ffmpeg is the SD value for a width <= 640, the HD
   value for 640 < width <= 1280, the Full-HD value for 1280 < width <= 1920
   and the UHD value for 1920 < width <= 3840; at a file wider than 3840 the
   run ends with the error status: ffmpeg runs neither on that file nor on
   any later one, and the transcode loop never gets past it. *)
C8_CRFByWidthOrAbort ==
    /\ \A j \in Jobs :
          /\ (pc = "ffmpeg" /\ i = j) =>
                 widthOf(j) <= 3840 /\ kwargs.crf = crfOfWidth(widthOf(j))
          /\ widthOf(j) > 3840 =>
                 /\ ~transcoded(j)
                 /\ ffmpegRuns[files_to_process[j].file].runs = 0
                 /\ (pc = "transcode" /\ i = j /\ ~running) =>
                        exitCode = "POSTPROCESS_ERROR"
    /\ (exitCode = "POSTPROCESS_ERROR" /\ isdir) =>
          /\ pc = "transcode" /\ i \in Jobs /\ widthOf(i) > 3840
          /\ \A k \in Jobs :
                k >= i => /\ ffmpegRuns[files_to_process[k].file].runs = 0
                          /\ files_to_process[k].converted_file = NoPath

C8_Witness ==
    /\ exitCode = "POSTPROCESS_ERROR"
    /\ Len(files_to_process) = 2
    /\ i = 1
    /\ widthOf(1) = 3841
    /\ widthOf(2) <= 3840

audioOf(streams) == SelectSeq(streams, LAMBDA s : s.codec_type = "audio")

hasDTS(f) ==
    \E k \in 1..Len(fs0[f].content.streams) :
        /\ fs0[f].content.streams[k].codec_type = "audio"
        /\ fs0[f].content.streams[k].codec_name = "dts"

(* C9: for every file, whatever files came before it, ffmpeg is run with
   c:a = eac3 and b:a = 640k when convertDTS is enabled and one of the file's
   audio streams is dts, so that every audio stream of the output is eac3;
   otherwise it is run with c:a = copy and no audio bitrate, and the output
   has the audio streams of the original. *)
C9_AudioPlan ==
    \A j \in Jobs :
        LET f == files_to_process[j].file IN
        /\ (pc = "ffmpeg" /\ i = j) =>
               IF convertDTS /\ hasDTS(f)
               THEN kwargs.c_a = "eac3" /\ kwargs.b_a = "640k"
               ELSE kwargs.c_a = "copy" /\ kwargs.b_a = "unset"
        /\ \A p \in DOMAIN fs :
               (fs[p].content.src = f /\ fs[p].content.kind # "original") =>
                   LET out == audioOf(fs[p].content.streams) IN
                   IF convertDTS /\ hasDTS(f)
                   THEN \A k \in 1..Len(out) : out[k].codec_name = "eac3"
                   ELSE out = audioOf(fs0[f].content.streams)

C9_Witness ==
    /\ pc = "ffmpeg"
    /\ i = 2
    /\ convertDTS
    /\ hasDTS(files_to_process[1].file)
    /\ ffmpegRuns[files_to_process[1].file].ok = 1
    /\ ~hasDTS(files_to_process[2].file)
    /\ Len(files_to_process[2].audio_streams) = 2
    /\ kwargs.c_a = "copy"

suffixed(file, n) ==
    [base |-> file.base, sfx |-> Append(file.sfx, n), ext |-> "mkv"]

smallestFree(dir, path, file) ==
    \E n \in 1..(Cardinality(DOMAIN dir) + 1) :
        /\ path = suffixed(file, n)
        /\ path \notin DOMAIN dir
        /\ \A m \in 1..(n - 1) : suffixed(file, m) \in DOMAIN dir

C10_Step ==
    /\ (pc = "transcode" /\ pc' = "ffmpeg") =>
           smallestFree(fs, files_to_process'[i].converted_file,
                        files_to_process[i].file)
    /\ (pc = "cleanup" /\ (pc' = "validate" \/ tmp_mkv' # tmp_mkv)) =>
           smallestFree(fs, tmp_mkv', files_to_process[i].converted_file)
    /\ \A p \in DOMAIN fs \cap DOMAIN fs' :
           fs'[p].content # fs[p].content =>
               /\ p = files_to_process[i].converted_file
               /\ fs[p].content.kind # "original"
               /\ fs[p].content.src = files_to_process[i].file
               /\ fs'[p].content.src = files_to_process[i].file

(* C10: the output path of a transcode, and that of a remux temporary, is the
   stem of its source with the smallest numeric suffix, counted from 1, whose
   path does not exist when it is chosen; and no step changes the content of
   a file other than the current file's own output, so no original and no
   other file's output is ever overwritten. *)
C10_OutputPathIsFree == [][C10_Step]_vars

C10_Witness ==
    /\ pc = "validate"
    /\ files_to_process[i].converted_file =
           suffixed(files_to_process[i].file, 2)
    /\ tmp_mkv = suffixed(files_to_process[i].converted_file, 1)
    /\ suffixed(files_to_process[i].file, 1) \in DOMAIN fs
    /\ fs[suffixed(files_to_process[i].file, 1)].content.kind = "original"

\* The run before committed every file it had found eligible.
committedAll(jobs) == \A j \in 1..Len(jobs) : jobs[j].outcome = "replaced"

(* C11: in a second run over a directory in which the first run replaced
   every eligible file, ffmpeg is never run, no file becomes a candidate and
   the directory stays as the second run found it; every file the first run
   replaced now has hevc as the codec of its one video stream. *)
C11_SecondRunIsIdle ==
    (run = 2 /\ committedAll(previous)) =>
        /\ \A p \in DOMAIN ffmpegRuns : ffmpegRuns[p].runs = 0
        /\ files_to_process = <<>>
        /\ fs = fs0
        /\ \A j \in 1..Len(previous) :
              LET v == getStreams(fs, previous[j].file).video_streams
              IN Len(v) = 1 /\ v[1].codec_name = "hevc"

C11_Witness ==
    /\ run = 2
    /\ Len(previous) = 2
    /\ committedAll(previous)
    /\ exitCode = "POSTPROCESS_SUCCESS"

\* The cleanup loop has run to its end.
completed == pc = "cleanup" /\ i > Len(files_to_process)

\* The status the outcome of an ended run calls for.
statusOfOutcome ==
    IF ~isdir THEN "POSTPROCESS_ERROR"
    ELSE IF ~completed THEN "POSTPROCESS_ERROR"
    ELSE IF files_to_process = <<>> THEN "POSTPROCESS_NONE"
    ELSE "POSTPROCESS_SUCCESS"

(* C12: a run that has ended reports the status of its outcome: the error
   status when the destination directory is missing or when the run ended
   before the cleanup loop had dealt with every file (unsupported width, a
   failing commit step), the nothing-to-do status when it ran to its end and
   the scan had found no eligible file, the success status otherwise. *)
C12_StatusReflectsOutcome == ~running => exitCode = statusOfOutcome

\* How the cleanup loop resolves a file whose encode succeeded, going by the
\* file's own streams and the size of its own output.
ownResult(f) ==
    LET old == videoOf(f).nbytes
        new == fs0[f].content.hevcBytes
    IN IF sizesRaise(new, old) THEN "exception"
       ELSE IF tooLargeOrSmall(new, old, minPercent, maxPercent) THEN "rejected"
       ELSE "replaced"

(* C13: the result of a file depends on nothing but the file's own streams
   and the results of the tools run on it.  For a file whose encode
   succeeded, once the run has ended at or after this file's turn in the
   cleanup loop: either the loop has resolved the file the way its own sizes
   call for (replaced, and its path holds its own remuxed output; or
   rejected, and its path holds the original), or the run ended at this file
   by the file's own doing (its own size lookup raised, or one of its own
   commit steps did). *)
C13_ResultIsOwn ==
    \A j \in Jobs :
        LET f == files_to_process[j].file IN
        (~running /\ inCleanup /\ i >= j /\ ffmpegRuns[f].ok = 1) =>
            \/ /\ cleaned(j)
               /\ outcome[f] = ownResult(f)
               /\ f \in DOMAIN fs
               /\ IF ownResult(f) = "replaced"
                  THEN fs[f].content.kind = "remuxed" /\ fs[f].content.src = f
                  ELSE fs[f] = fs0[f]
            \/ i = j /\ pc = "validate" /\ ownResult(f) = "exception"
            \/ i = j /\ pc \in {"remove", "rename"} /\ ownResult(f) = "replaced"

\* The files with something made from them in the directory.
withArtifacts == { f \in DOMAIN fs0 : artifactsOf(f) # {} }

\* The retry loop of job j has ended.
encodeEnded(j) ==
    ffmpegRuns[files_to_process[j].file].ok = 1 \/ files_to_process[j].failed

(* C14 as claimed: a file is transcoded, validated and committed (or rejected,
   or cleaned up) before ffmpeg is run for the next one, and never are there
   outputs of two files in the directory. *)
C14_OneFileAtATime ==
    /\ \A j \in Jobs :
          (pc = "ffmpeg" /\ i = j) =>
              \A k \in 1..(j - 1) :
                  /\ artifactsOf(files_to_process[k].file) = {}
                  /\ \/ outcome[files_to_process[k].file] # "none"
                     \/ files_to_process[k].failed
    /\ Cardinality(withArtifacts) <= 1

C14_Passes ==
    /\ pc \in {"transcode", "ffmpeg"} =>
          /\ \A p \in DOMAIN fs0 : outcome[p] = "none" /\ fs[p] = fs0[p]
          /\ \A j \in Jobs :
                /\ j < i => encodeEnded(j)
                /\ j > i => /\ ffmpegRuns[files_to_process[j].file].runs = 0
                            /\ files_to_process[j].converted_file = NoPath
    /\ inCleanup =>
          \A j \in Jobs :
              /\ encodeEnded(j)
              /\ j < i => artifactsOf(files_to_process[j].file) = {}
              /\ j > i => /\ outcome[files_to_process[j].file] = "none"
                          /\ fs[files_to_process[j].file] =
                                 fs0[files_to_process[j].file]

C14_Step ==
    /\ ffmpegRuns' # ffmpegRuns =>
          /\ pc = "ffmpeg" /\ pc' \in {"ffmpeg", "transcode"}
          /\ \A p \in DOMAIN fs0 :
                p # files_to_process[i].file => ffmpegRuns'[p] = ffmpegRuns[p]
    /\ outcome' # outcome =>
          /\ inCleanup
          /\ \A p \in DOMAIN fs0 :
                p # files_to_process[i].file => outcome'[p] = outcome[p]

(* C14, amended: the run is sequential and goes in passes.  ffmpeg is run on
   the eligible files one after another, each with its retries, while no file
   has been validated and every original is untouched; only when the retry
   loop of every file has ended are the files validated and committed (or
   rejected, or cleaned up), one after another in the same order, each to
   completion before the next is touched, and ffmpeg is not run again. *)
C14_TwoPasses == [](C14_Passes) /\ [][C14_Step]_vars

C14_Witness ==
    /\ pc = "cleanup"
    /\ i = 2
    /\ Len(files_to_process) = 2
    /\ outcome[files_to_process[1].file] = "replaced"
    /\ ffmpegRuns[files_to_process[2].file].ok = 1
    /\ artifactsOf(files_to_process[2].file) # {}

(* C15: in every state, a commit step having failed or not, the path of an
   eligible original holds a file, and that file is the original or the
   accepted output made from it. *)
C15_ReplacementIsAtomic ==
    \A j \in Jobs :
        LET f == files_to_process[j].file IN
        /\ f \in DOMAIN fs
        /\ \/ fs[f].content = fs0[f].content
           \/ /\ fs[f].content.kind = "remuxed"
              /\ fs[f].content.src = f
              /\ ownResult(f) = "replaced"

(* C16: for every job, attempts is at most the retry budget and is the number
   of failed runs of ffmpeg on the file, and once the retry loop has ended
   the job is failed iff attempts has reached the budget without a
   successful run. *)
C16_AttemptsCountFailures ==
    \A j \in Jobs :
        LET job == files_to_process[j]
            r == ffmpegRuns[job.file]
        IN /\ job.attempts <= retryFailure
           /\ job.attempts = r.runs - r.ok
           /\ transcoded(j) =>
                  (job.failed <=> (job.attempts = retryFailure /\ r.ok = 0))

(* C17: the converted_file of a job is non-empty only while ffmpeg is at work
   on the job, while an output is in the directory at that path, or when the
   output has been moved to the original's path; it is empty after a
   rejection, after the cleanup of a failed job, and for a failed job whose
   runs left no output. *)
C17_ConvertedPathMeansArtifact ==
    \A j \in Jobs :
        LET job == files_to_process[j] IN
        job.converted_file # NoPath =>
            \/ pc = "ffmpeg" /\ i = j
            \/ exists(fs, job.converted_file)
            \/ outcome[job.file] = "replaced"

\* Lines 272-298 have run for job j.
prepared(j) == (pc = "ffmpeg" /\ i >= j) \/ transcoded(j)

hasOtherThanDTS(f) ==
    \E k \in 1..Len(fs0[f].content.streams) :
        /\ fs0[f].content.streams[k].codec_type = "audio"
        /\ fs0[f].content.streams[k].codec_name # "dts"

(* C18: the DTS warning is printed for a file iff convertDTS is enabled, one
   of the file's audio streams is dts and another one is not; no warning is
   printed for a file whose audio streams are all dts. *)
C18_WarnsIffMixedAudio ==
    \A j \in Jobs :
        LET f == files_to_process[j].file IN
        prepared(j) =>
            (f \in warnings <=> (convertDTS /\ hasDTS(f) /\ hasOtherThanDTS(f)))

(* C19: when the run has ended, by its last line or by an abort, the directory
   holds no output and no remux temporary of the run: every path was there
   when the run started and holds the original or the output that replaced
   it. *)
C19_NoArtifactLeftAtExit ==
    ~running =>
        \A p \in DOMAIN fs :
            /\ p \in DOMAIN fs0
            /\ fs[p].content.kind = "original" \/ fs[p].content.src = p

(* C20: the run never ends in the validation of a file: whatever the size tag
   of the original's video stream, absent and zero included, the validation
   of a file whose encode succeeded goes on to accept or to reject. *)
C20_ValidationNeverEndsRun == pc = "validate" => running

====
